---------------------------- MODULE Spec2Model ----------------------------
(***************************************************************************)
(* Model of the profit-curve pipeline.                                     *)
(*                                                                         *)
(*   feature_build.py   the script that lags the quarterly fundamentals,   *)
(*                      resamples them to daily rows, joins them to the   *)
(*                      price series, filters on equity and builds the     *)
(*                      63-position forward-return label (Spec).           *)
(*   bronze_clean.py    the extraction of one company's facts and the      *)
(*                      batch loop over the raw documents (SpecBronze).    *)
(*                                                                         *)
(* Dates are day numbers.  A cell of a data frame is an option: <<>> is    *)
(* NaN/NaT/None, <<v>> is the value v.  Returns are kept as exact          *)
(* fractions <<numerator, denominator>>; float rounding is not modelled.   *)
(* Lines 111-118 of feature_build.py (debt_equity, gross_margin, rev_qoq)  *)
(* add row-wise columns and neither add, drop nor reorder rows; the       *)
(* concept columns they read (liabilities, cogs) are filled by the same    *)
(* column-wise code as equity and revenue and are not carried here.        *)
(***************************************************************************)
EXTENDS Integers, Sequences, FiniteSets, TLC

VARIABLES
    \* feature_build.py: the CONFIG values
    info_lag_days, max_ff_days,
    \* feature_build.py
    pc, fund, price, spy, gi, parts, fund_daily, ti, merged, features, written,
    \* bronze_clean.py
    bpc, files, fi, rows, df_long, bronze,
    \* sec_download.py
    dpc, ciks, ci, attempt, requests, last_status, saved

cvars == <<info_lag_days, max_ff_days>>

fvars == <<pc, fund, price, spy, gi, parts, fund_daily, ti, merged, features,
           written>>

bvars == <<bpc, files, fi, rows, df_long, bronze>>

dvars == <<dpc, ciks, ci, attempt, requests, last_status, saved>>

vars == <<cvars, fvars, bvars, dvars>>

(* ------------------------------ cells --------------------------------- *)
NaN == <<>>

Some(v) == <<v>>

IsNaN(x) == x = <<>>

NotNa(x) == x # <<>>

Get(x) == x[1]

(* ------------------------- program constants -------------------------- *)
INFO_LAG_DAYS == 45

MAX_FF_DAYS == 400

HORIZON == 63

TICKERS == <<"AAPL", "MSFT">>

TICKER_CIK == [AAPL |-> "0000320193", MSFT |-> "0000789019"]

\* str.lstrip("0") on the identifiers that occur: the zero-padded ten-digit
\* form of TICKER_CIK and the unpadded form str(blob["cik"]) of the tables.
Lstrip0(s) ==
    CASE s = "0000320193" -> "320193"
      [] s = "0000789019" -> "789019"
      [] OTHER -> s


(* ------------------------- data frame helpers ------------------------- *)
\* F applied to the value of v, with v evaluated once (a local variable of
\* the code: an intermediate frame is computed once and then read).
Bind(v, F(_)) == CHOOSE r \in {F(x) : x \in {v}} : TRUE

SetMin(S) == CHOOSE x \in S : \A y \in S : x <= y

SetMax(S) == CHOOSE x \in S : \A y \in S : x >= y

RECURSIVE Concat(_)
\* pd.concat of a list of frames
Concat(frames) ==
    IF frames = <<>> THEN <<>> ELSE Head(frames) \o Concat(Tail(frames))

\* Index labels of a frame (its "date" column).
IndexOf(frame) == {frame[k].date : k \in DOMAIN frame}

HasDuplicateIndex(frame) ==
    \E i, j \in DOMAIN frame : i # j /\ frame[i].date = frame[j].date

\* The row of a frame at index label d, all-NaN when the label is missing
\* (DataFrame.reindex).
BlankRow(frame, d) ==
    [c \in DOMAIN frame[1] |-> IF c = "date" THEN d ELSE NaN]

RowAt(frame, d) ==
    IF \E k \in DOMAIN frame : frame[k].date = d
    THEN frame[CHOOSE k \in DOMAIN frame : frame[k].date = d]
    ELSE BlankRow(frame, d)

\* DataFrame.asfreq("D"): reindex on date_range(index.min(), index.max()).
\* The caller has checked that the index has no duplicate label (reindex
\* raises ValueError on one).
Asfreq(frame) ==
    Bind(frame, LAMBDA fr :
      Bind(<<SetMin(IndexOf(fr)), SetMax(IndexOf(fr))>>, LAMBDA b :
        [k \in 1..(b[2] - b[1] + 1) |-> RowAt(fr, b[1] + k - 1)]))

\* limit=None of ffill
NoLimit == -1

\* Mutant of WithinLimit: the fill runs one cell too far.
WithinLimitOffByOne(run, limit) == limit = NoLimit \/ run <= limit + 1

\* Whether the cell `run` cells below the last valid one is still filled.
WithinLimit(run, limit) == limit = NoLimit \/ run <= limit

\* One column of DataFrame.ffill(limit): a NaN cell takes the last valid
\* value above it when at most `limit` consecutive NaN cells, itself
\* included, separate the two; otherwise it stays NaN.
FfillCol(col, limit) ==
    Bind(col, LAMBDA cl :
      Bind({j \in DOMAIN cl : NotNa(cl[j])}, LAMBDA valid :
        [i \in DOMAIN cl |->
           IF i \in valid THEN cl[i]
           ELSE Bind({j \in valid : j < i}, LAMBDA above :
                  IF above = {} THEN NaN
                  ELSE Bind(SetMax(above), LAMBDA p :
                         IF WithinLimit(i - p, limit) THEN cl[p] ELSE NaN))]))

\* Mutant of Ffill: nothing is carried forward.
FfillNone(frame, limit) == frame

\* DataFrame.ffill(limit=...): every column is filled on its own.
Ffill(frame, limit) ==
    Bind(frame, LAMBDA fr :
      IF fr = <<>> THEN fr
      ELSE Bind([c \in DOMAIN fr[1] \ {"date"} |->
                   FfillCol([k \in DOMAIN fr |-> fr[k][c]], limit)],
                LAMBDA filled :
                  [k \in DOMAIN fr |->
                     [c \in DOMAIN fr[1] |->
                        IF c = "date" THEN fr[k].date ELSE filled[c][k]]]))

(* ------------------ feature_build.py: fundamentals -------------------- *)
\* Mutant of InfoDate: the lag is forgotten.
InfoDateNoLag(end) == end

\* fund["info_date"] = fund["end"] + pd.Timedelta(days=INFO_LAG_DAYS)
InfoDate(end) == end + info_lag_days

WithInfoDate(r) ==
    [cik |-> r.cik, end |-> r.end, fy |-> r.fy, fp |-> r.fp,
     equity |-> r.equity, revenue |-> r.revenue, info_date |-> InfoDate(r.end)]

\* The group keys of fund.groupby("cik"), in sorted order (the table is
\* sorted by cik, so first occurrence order is sorted order).
RECURSIVE Uniq(_, _)
Uniq(s, seen) ==
    IF s = <<>> THEN <<>>
    ELSE IF Head(s) \in seen THEN Uniq(Tail(s), seen)
         ELSE <<Head(s)>> \o Uniq(Tail(s), seen \cup {Head(s)})

GroupKeys(table) == Uniq([k \in DOMAIN table |-> table[k].cik], {})

Group(table, cik) == SelectSeq(table, LAMBDA r : r.cik = cik)

\* g.set_index("info_date"): info_date becomes the index, the other columns
\* stay columns.
SetIndexInfoDate(g) ==
    [k \in DOMAIN g |->
       [date |-> g[k].info_date, cik |-> Some(g[k].cik), end |-> Some(g[k].end),
        fy |-> Some(g[k].fy), fp |-> Some(g[k].fp),
        equity |-> g[k].equity, revenue |-> g[k].revenue]]

\* .assign(cik=cik)
AssignCik(frame, cik) ==
    [k \in DOMAIN frame |-> [frame[k] EXCEPT !.cik = cik]]

\* g.set_index("info_date").asfreq("D").ffill(limit=MAX_FF_DAYS).assign(cik=cik)
Daily(g, cik) ==
    AssignCik(Ffill(Asfreq(SetIndexInfoDate(g)), max_ff_days), cik)

(* ---------------- feature_build.py: prices and merge ------------------ *)
\* shares.csv as read into shares_map; a ticker may be missing from it.
shares_map == [AAPL |-> Some(2), MSFT |-> NaN]

\* f = fund_daily[fund_daily["cik"].str.lstrip("0") == cik_clean]
FundOf(daily, cik) ==
    SelectSeq(daily, LAMBDA r : Lstrip0(r.cik) = Lstrip0(cik))

\* The columns of f at date d for the left join: NaN when f has no row at d.
FundAt(f, d) ==
    IF \E k \in DOMAIN f : f[k].date = d
    THEN LET r == f[CHOOSE k \in DOMAIN f : f[k].date = d]
         IN  [cik |-> Some(r.cik), end |-> r.end, fy |-> r.fy, fp |-> r.fp,
              equity |-> r.equity, revenue |-> r.revenue]
    ELSE [cik |-> NaN, end |-> NaN, fy |-> NaN, fp |-> NaN,
          equity |-> NaN, revenue |-> NaN]

\* merged = p.merge(f, on="date", how="left") with market_cap and ticker
MergeTickerRows(p, f, tkr) ==
    Bind(f, LAMBDA fd :
      [k \in DOMAIN p |->
         Bind(FundAt(fd, p[k].date), LAMBDA m :
           [date |-> p[k].date, adj_close |-> p[k].adj_close, ticker |-> tkr,
            cik |-> m.cik, end |-> m.end, fy |-> m.fy, fp |-> m.fp,
            equity |-> m.equity, revenue |-> m.revenue,
            market_cap |-> IF IsNaN(shares_map[tkr]) \/ IsNaN(p[k].adj_close)
                           THEN NaN
                           ELSE Some(Get(p[k].adj_close) * Get(shares_map[tkr]))])])

\* Mutant of ValidEquity: the sign test is forgotten.
ValidEquityAnySign(r) == NotNa(r.equity)

\* features["equity"].notna() & (features["equity"] > 0)
ValidEquity(r) == NotNa(r.equity) /\ Get(r.equity) > 0

FilterEquity(tbl) == SelectSeq(tbl, ValidEquity)

(* -------------------- feature_build.py: the label --------------------- *)
\* features.merge(spy, left_on="date", right_index=True, how="left")
SpyAt(spyframe, d) ==
    IF \E k \in DOMAIN spyframe : spyframe[k].date = d
    THEN spyframe[CHOOSE k \in DOMAIN spyframe : spyframe[k].date = d].spy_close
    ELSE NaN

\* Rank of every row inside its ticker's group, in table order (the groups
\* of features.groupby("ticker")).
GroupRank(tbl) ==
    [k \in DOMAIN tbl |->
       Cardinality({j \in 1..k : tbl[j].ticker = tbl[k].ticker})]

\* Mutant of ShiftPos: shift(-HORIZON) on the whole table, the groupby
\* forgotten.
ShiftPosNoGroup(tbl, rank, k) ==
    IF k + HORIZON \in DOMAIN tbl THEN Some(k + HORIZON) ELSE NaN

\* groupby("ticker")[col].shift(-HORIZON): the table position of the row
\* HORIZON ranks further down the same ticker's group, NaN when the group
\* ends before.
ShiftPos(tbl, rank, k) ==
    LET hit == {m \in DOMAIN tbl : /\ tbl[m].ticker = tbl[k].ticker
                                    /\ rank[m] = rank[k] + HORIZON}
    IN  IF hit = {} THEN NaN ELSE Some(CHOOSE m \in hit : TRUE)

\* (fwd / cur) - 1 as the exact fraction <<fwd - cur, cur>>
Ret(fwd, cur) ==
    IF IsNaN(fwd) \/ IsNaN(cur) THEN NaN
    ELSE Some(<<Get(fwd) - Get(cur), Get(cur)>>)

\* a - b on fractions
Excess(a, b) ==
    IF IsNaN(a) \/ IsNaN(b) THEN NaN
    ELSE Some(<<Get(a)[1] * Get(b)[2] - Get(b)[1] * Get(a)[2],
                Get(a)[2] * Get(b)[2]>>)

\* (excess_ret > 0).astype(int): a comparison with NaN is False
LabelUp(x) ==
    IF NotNa(x) /\ ( \/ Get(x)[1] > 0 /\ Get(x)[2] > 0
                     \/ Get(x)[1] < 0 /\ Get(x)[2] < 0 )
    THEN 1 ELSE 0

Labelled(tbl, spyframe) ==
    Bind(<<[k \in DOMAIN tbl |-> SpyAt(spyframe, tbl[k].date)],
           GroupRank(tbl)>>, LAMBDA w :
      [k \in DOMAIN tbl |->
         Bind(ShiftPos(tbl, w[2], k), LAMBDA sp :
           LET withspy == w[1]
               fwdp == IF IsNaN(sp) THEN NaN ELSE tbl[Get(sp)].adj_close
               fwds == IF IsNaN(sp) THEN NaN ELSE withspy[Get(sp)]
               fr   == Ret(fwdp, tbl[k].adj_close)
               sr   == Ret(fwds, withspy[k])
               ex   == Excess(fr, sr)
           IN  [date |-> tbl[k].date, adj_close |-> tbl[k].adj_close,
                ticker |-> tbl[k].ticker, cik |-> tbl[k].cik,
                end |-> tbl[k].end, fy |-> tbl[k].fy, fp |-> tbl[k].fp,
                equity |-> tbl[k].equity, revenue |-> tbl[k].revenue,
                market_cap |-> tbl[k].market_cap,
                spy_close |-> withspy[k], future_return |-> fr,
                spy_future_ret |-> sr, excess_ret |-> ex,
                label_up |-> LabelUp(ex)])])

(* --------------------- inputs of feature_build.py --------------------- *)
\* Largest number of fundamentals rows of the entity whose table varies.
MaxRows == 2

\* Number of rows of each ticker's price file.
PriceLen == 80

\* First date of the price files and of the benchmark file.
PriceStart == 40

\* Reporting periods a wide row can stand for.  The first two share a
\* period end: a quarter reported again, as a comparative, under the next
\* fiscal year.  The gap 0 -> 402 exceeds MAX_FF_DAYS, the others do not.
Periods ==
    { [fy |-> 2021, fp |-> "Q1", end |-> 0],
      [fy |-> 2022, fp |-> "Q1", end |-> 0],
      [fy |-> 2021, fp |-> "Q2", end |-> 20],
      [fy |-> 2022, fp |-> "Q2", end |-> 402] }

\* Concept cells of a wide row; pivot_table leaves no row with every
\* concept absent.
RowValues ==
    { [equity |-> Some(100), revenue |-> Some(7)],
      [equity |-> Some(110), revenue |-> NaN],
      [equity |-> NaN,       revenue |-> Some(9)],
      [equity |-> Some(0),   revenue |-> Some(7)] }

SortKey(p) == p.end * 10000 + p.fy

RECURSIVE SortedPeriods(_)
\* sort_values(["cik", "end"]) within one entity
SortedPeriods(S) ==
    IF S = {} THEN <<>>
    ELSE LET p == CHOOSE x \in S : \A y \in S : SortKey(x) <= SortKey(y)
         IN  <<p>> \o SortedPeriods(S \ {p})

WideRows(cik, S, v) ==
    LET ps == SortedPeriods(S)
    IN  [k \in DOMAIN ps |->
           [cik |-> cik, end |-> ps[k].end, fy |-> ps[k].fy, fp |-> ps[k].fp,
            equity |-> v[ps[k]].equity, revenue |-> v[ps[k]].revenue]]

\* The wide tables of the first entity: up to MaxRows periods, any cells.
TablesA ==
    UNION { { WideRows("320193", S, v) : v \in [S -> RowValues] } :
            S \in { T \in SUBSET Periods : Cardinality(T) <= MaxRows } }

\* The second entity has no fundamentals at all, or two plain quarters, or
\* four quarters of which the second reports a negative equity.
TablesB ==
    { <<>>,
      << [cik |-> "789019", end |-> 0, fy |-> 2021, fp |-> "Q1",
          equity |-> Some(500), revenue |-> Some(50)],
         [cik |-> "789019", end |-> 100, fy |-> 2021, fp |-> "Q3",
          equity |-> Some(510), revenue |-> Some(51)] >>,
      << [cik |-> "789019", end |-> 0, fy |-> 2021, fp |-> "Q1",
          equity |-> Some(500), revenue |-> Some(50)],
         [cik |-> "789019", end |-> 20, fy |-> 2021, fp |-> "Q2",
          equity |-> Some(-5), revenue |-> Some(51)],
         [cik |-> "789019", end |-> 22, fy |-> 2021, fp |-> "Q3",
          equity |-> Some(520), revenue |-> Some(52)],
         [cik |-> "789019", end |-> 100, fy |-> 2021, fp |-> "Q4",
          equity |-> Some(530), revenue |-> Some(53)] >> }

\* data/silver/fundamentals.parquet: sorted by (cik, end)
SilverInputs == { a \o b : a \in TablesA, b \in TablesB } \ {<<>>}

Calendars == {"daily", "weekdays"}

IsOpen(cal, d) == cal = "daily" \/ d % 7 < 5

\* the first n dates from d on which the calendar is open
DatesFrom(cal, d, n) ==
    Bind({e \in d..(d + 2 * n) : IsOpen(cal, e)}, LAMBDA open :
      [k \in 1..n |->
         CHOOSE e \in open : Cardinality({x \in open : x <= e}) = k])

PriceBase == [AAPL |-> 100, MSFT |-> 300]

\* <ticker>.parquet: a rising adjusted close, one row per open date
PriceFile(tkr, cal) ==
    Bind(DatesFrom(cal, PriceStart, PriceLen), LAMBDA ds :
      [k \in DOMAIN ds |-> [date |-> ds[k], adj_close |-> Some(PriceBase[tkr] + k)]])

PriceInputs ==
    { [t \in {"AAPL", "MSFT"} |-> PriceFile(t, cal)] : cal \in Calendars }

\* SPY.parquet: one row per weekday
SpyFile ==
    Bind(DatesFrom("weekdays", PriceStart, PriceLen), LAMBDA ds :
      [k \in DOMAIN ds |-> [date |-> ds[k], spy_close |-> Some(1000 + k)]])

\* Number of rows of the price files of the two-quarter scenario.
ScenarioLen == 240

\* The two-quarter scenario, dates counted in days from 2021-01-01 = 0: one
\* entity with Q1 (period end 2021-03-31 = day 89, equity 100) and Q2
\* (period end 2021-06-30 = day 180, equity 110).
ScenarioFund ==
    << [cik |-> "320193", end |-> 89, fy |-> 2021, fp |-> "Q1",
        equity |-> Some(100), revenue |-> NaN],
       [cik |-> "320193", end |-> 180, fy |-> 2021, fp |-> "Q2",
        equity |-> Some(110), revenue |-> NaN] >>

\* A flat daily price of 10 from 2021-01-01 on.
ScenarioPrice ==
    [t \in {"AAPL", "MSFT"} |->
       [k \in 1..ScenarioLen |-> [date |-> k - 1, adj_close |-> Some(10)]]]

\* sec_download.py is not running.
DownloadIdle ==
    /\ dpc = "idle"
    /\ ciks = <<>>
    /\ ci = 1
    /\ attempt = 0
    /\ requests = <<>>
    /\ last_status = <<>>
    /\ saved = {}

\* bronze_clean.py is not running.
BronzeIdle ==
    /\ bpc = "idle"
    /\ files = <<>>
    /\ fi = 1
    /\ rows = <<>>
    /\ df_long = <<>>
    /\ bronze = <<>>

\* feature_build.py after its inputs are chosen, before its first statement
\* after the CONFIG block.
FeatureStart ==
    /\ pc = "load_fund"
    /\ spy = SpyFile
    /\ gi = 1
    /\ parts = <<>>
    /\ fund_daily = <<>>
    /\ ti = 1
    /\ merged = <<>>
    /\ features = <<>>
    /\ written = FALSE

(* ------------------------ feature_build.py ---------------------------- *)
Init ==
    /\ info_lag_days = INFO_LAG_DAYS
    /\ max_ff_days = MAX_FF_DAYS
    /\ \/ fund \in SilverInputs /\ price \in PriceInputs
       \/ fund = ScenarioFund /\ price = ScenarioPrice
    /\ FeatureStart
    /\ BronzeIdle
    /\ DownloadIdle

\* lines 38-40
LoadFundamentals ==
    /\ pc = "load_fund"
    /\ fund' = [k \in DOMAIN fund |-> WithInfoDate(fund[k])]
    /\ pc' = "load_prices"
    /\ UNCHANGED <<price, spy, gi, parts, fund_daily, ti, merged, features, written>>
    /\ UNCHANGED <<cvars, bvars, dvars>>

\* lines 66-75: spy = spy.asfreq("D").ffill()
LoadPrices ==
    /\ pc = "load_prices"
    /\ spy' = Ffill(Asfreq(spy), NoLimit)
    /\ pc' = "align"
    /\ UNCHANGED <<fund, price, gi, parts, fund_daily, ti, merged, features, written>>
    /\ UNCHANGED <<cvars, bvars, dvars>>

\* lines 79-86: one iteration of the groupby loop; reindexing an index with
\* a duplicate label raises ValueError, and so does ffill with a limit that
\* is not greater than 0: either ends the script.
AlignGroup ==
    /\ pc = "align"
    /\ gi <= Len(GroupKeys(fund))
    /\ LET cik == GroupKeys(fund)[gi]
           g   == Group(fund, cik)
       IN  IF HasDuplicateIndex(SetIndexInfoDate(g)) \/ max_ff_days <= 0
           THEN /\ pc' = "crashed"
                /\ UNCHANGED <<gi, parts>>
           ELSE /\ parts' = Append(parts, Daily(g, cik))
                /\ gi' = gi + 1
                /\ pc' = pc
    /\ UNCHANGED <<fund, price, spy, fund_daily, ti, merged, features, written>>
    /\ UNCHANGED <<cvars, bvars, dvars>>

\* line 88: pd.concat(parts) raises ValueError on an empty list
ConcatDaily ==
    /\ pc = "align"
    /\ gi > Len(GroupKeys(fund))
    /\ IF parts = <<>>
       THEN pc' = "crashed" /\ UNCHANGED fund_daily
       ELSE pc' = "merge" /\ fund_daily' = Concat(parts)
    /\ UNCHANGED <<fund, price, spy, gi, parts, ti, merged, features, written>>
    /\ UNCHANGED <<cvars, bvars, dvars>>

\* lines 92-104: one iteration of the ticker loop
MergeTicker ==
    /\ pc = "merge"
    /\ ti <= Len(TICKERS)
    /\ LET tkr == TICKERS[ti]
           f   == FundOf(fund_daily, TICKER_CIK[tkr])
       IN  merged' = Append(merged, MergeTickerRows(price[tkr], f, tkr))
    /\ ti' = ti + 1
    /\ UNCHANGED <<pc, fund, price, spy, gi, parts, fund_daily, features, written>>
    /\ UNCHANGED <<cvars, bvars, dvars>>

\* lines 106-109: concat, then keep the rows with valid, positive equity
ConcatAndFilter ==
    /\ pc = "merge"
    /\ ti > Len(TICKERS)
    /\ features' = FilterEquity(Concat(merged))
    /\ pc' = "label"
    /\ UNCHANGED <<fund, price, spy, gi, parts, fund_daily, ti, merged, written>>
    /\ UNCHANGED <<cvars, bvars, dvars>>

\* lines 122-130
Label ==
    /\ pc = "label"
    /\ features' = Labelled(features, spy)
    /\ pc' = "save"
    /\ UNCHANGED <<fund, price, spy, gi, parts, fund_daily, ti, merged, written>>
    /\ UNCHANGED <<cvars, bvars, dvars>>

\* lines 133-134
Save ==
    /\ pc = "save"
    /\ written' = TRUE
    /\ pc' = "done"
    /\ UNCHANGED <<fund, price, spy, gi, parts, fund_daily, ti, merged, features>>
    /\ UNCHANGED <<cvars, bvars, dvars>>

Next ==
    \/ LoadFundamentals
    \/ LoadPrices
    \/ AlignGroup
    \/ ConcatDaily
    \/ MergeTicker
    \/ ConcatAndFilter
    \/ Label
    \/ Save

Spec == Init /\ [][Next]_vars

(* ------------- feature_build.py run with edited CONFIG values ---------- *)
\* Values the CONFIG block can assign to INFO_LAG_DAYS and MAX_FF_DAYS.
ConfigLags == {0 - INFO_LAG_DAYS, -1, 0, INFO_LAG_DAYS}

ConfigFills == {0, 1, MAX_FF_DAYS}

ConfigFunds == {ScenarioFund} \cup (TablesB \ {<<>>})

\* Lines 21-34 only assign the CONFIG values: nothing looks at them before
\* the first statement that uses them.
InitConfig ==
    /\ info_lag_days \in ConfigLags
    /\ max_ff_days \in ConfigFills
    /\ fund \in ConfigFunds
    /\ price \in PriceInputs \cup {ScenarioPrice}
    /\ FeatureStart
    /\ BronzeIdle
    /\ DownloadIdle

SpecConfig == InitConfig /\ [][Next]_vars

(* --------------------------- bronze_clean.py -------------------------- *)
\* TAG_MAP in dict order: canonical column -> the SEC tags it may come from
TAG_MAP ==
    << [col |-> "assets", tags |-> <<"Assets">>],
       [col |-> "liabilities", tags |-> <<"Liabilities">>],
       [col |-> "equity",
        tags |-> << "StockholdersEquity",
                    "StockholdersEquityIncludingPortionAttributableToParent",
                    "StockholdersEquityIncludingPortionAttributableToNoncontrollingInterest",
                    "TotalEquityGross" >>],
       [col |-> "revenue", tags |-> <<"Revenues">>],
       [col |-> "cogs", tags |-> <<"CostOfRevenue">>],
       [col |-> "net_income", tags |-> <<"NetIncomeLoss">>],
       [col |-> "operating_cf",
        tags |-> <<"NetCashProvidedByUsedInOperatingActivities">>],
       [col |-> "capex", tags |-> <<"CapitalExpenditures">>],
       [col |-> "eps_diluted", tags |-> <<"EarningsPerShareDiluted">>] >>

KEEP_PERIODS == {"Q1", "Q2", "Q3", "Q4", "FY"}

\* us_gaap.get(tag, {}).get("units", {}).get(unit): None when the tag or the
\* unit is missing
SeriesOf(us_gaap, tag, unit) ==
    IF tag \in DOMAIN us_gaap /\ unit \in DOMAIN us_gaap[tag]
    THEN Some(us_gaap[tag][unit])
    ELSE NaN

\* `if series:` -- neither None nor an empty list
Truthy(series) == NotNa(series) /\ Get(series) # <<>>

RECURSIVE FirstFrom(_, _, _, _)
FirstFrom(us_gaap, tag_list, unit, j) ==
    IF j > Len(tag_list) THEN NaN
    ELSE IF Truthy(SeriesOf(us_gaap, tag_list[j], unit))
         THEN SeriesOf(us_gaap, tag_list[j], unit)
         ELSE FirstFrom(us_gaap, tag_list, unit, j + 1)

RECURSIVE LastFrom(_, _, _, _)
LastFrom(us_gaap, tag_list, unit, j) ==
    IF j < 1 THEN NaN
    ELSE IF Truthy(SeriesOf(us_gaap, tag_list[j], unit))
         THEN SeriesOf(us_gaap, tag_list[j], unit)
         ELSE LastFrom(us_gaap, tag_list, unit, j - 1)

\* Mutant of first_numeric_series: the last populated synonym wins.
last_numeric_series(us_gaap, tag_list) ==
    LastFrom(us_gaap, tag_list, "USD", Len(tag_list))

\* first_numeric_series(us_gaap, tag_list, unit="USD")
first_numeric_series(us_gaap, tag_list) == FirstFrom(us_gaap, tag_list, "USD", 1)

\* The facts one concept contributes: the records of its series whose fiscal
\* period is kept, in series order.
ConceptRows(cik, col, series) ==
    IF ~Truthy(series) THEN <<>>
    ELSE Bind(SelectSeq(Get(series), LAMBDA rec : rec.fp \in KEEP_PERIODS),
              LAMBDA kept :
                [k \in DOMAIN kept |->
                   [cik |-> cik, end |-> kept[k].end, fy |-> kept[k].fy,
                    fp |-> kept[k].fp, concept |-> col, value |-> kept[k].val]])

RECURSIVE RowsFrom(_, _, _)
\* the loop over TAG_MAP.items() of extract_company_table
RowsFrom(cik, us_gaap, j) ==
    IF j > Len(TAG_MAP) THEN <<>>
    ELSE ConceptRows(cik, TAG_MAP[j].col,
                     first_numeric_series(us_gaap, TAG_MAP[j].tags))
         \o RowsFrom(cik, us_gaap, j + 1)

\* blob["cik"] or blob["facts"] raises KeyError on a missing key
Malformed(blob) == IsNaN(blob.cik) \/ IsNaN(blob.facts)

\* blob["facts"].get("us-gaap", {})
UsGaap(blob) ==
    IF "us-gaap" \in DOMAIN Get(blob.facts) THEN Get(blob.facts)["us-gaap"]
    ELSE <<>>

LongRows(blob) == RowsFrom(Get(blob.cik), UsGaap(blob), 1)

DedupKey(r) == <<r.cik, r.fy, r.fp, r.concept>>

\* The orders sort_values("end") may leave the facts in: ascending by end,
\* facts with equal end in any order (the default sort is not stable).
SortedByEnd(long) ==
    { p \in [DOMAIN long -> DOMAIN long] :
        /\ \A i, j \in DOMAIN long : i # j => p[i] # p[j]
        /\ \A i, j \in DOMAIN long : i < j => long[p[i]].end <= long[p[j]].end }

\* Mutant of KeepLast: keep="first".
KeepFirst(long, p) ==
    Bind([i \in DOMAIN long |-> long[p[i]]], LAMBDA sorted :
      SelectSeq([i \in DOMAIN sorted |-> [pos |-> i, r |-> sorted[i]]],
                LAMBDA x : \A j \in DOMAIN sorted :
                             j < x.pos => DedupKey(sorted[j]) # DedupKey(x.r)))

\* drop_duplicates(["cik", "fy", "fp", "concept"], keep="last") on the facts
\* taken in the order p
KeepLast(long, p) ==
    Bind([i \in DOMAIN long |-> long[p[i]]], LAMBDA sorted :
      SelectSeq([i \in DOMAIN sorted |-> [pos |-> i, r |-> sorted[i]]],
                LAMBDA x : \A j \in DOMAIN sorted :
                             j > x.pos => DedupKey(sorted[j]) # DedupKey(x.r)))

Dedup(long, p) ==
    Bind(KeepLast(long, p), LAMBDA kept : [i \in DOMAIN kept |-> kept[i].r])

FpRank(fp) ==
    CASE fp = "FY" -> 0 [] fp = "Q1" -> 1 [] fp = "Q2" -> 2
      [] fp = "Q3" -> 3 [] fp = "Q4" -> 4

WideKey(r) == [cik |-> r.cik, end |-> r.end, fy |-> r.fy, fp |-> r.fp]

WideLess(a, b) ==
    \/ a.end < b.end
    \/ a.end = b.end /\ a.fy < b.fy
    \/ a.end = b.end /\ a.fy = b.fy /\ FpRank(a.fp) < FpRank(b.fp)

RECURSIVE SortedKeys(_)
SortedKeys(S) ==
    IF S = {} THEN <<>>
    ELSE LET k == CHOOSE x \in S : \A y \in S \ {x} : WideLess(x, y)
         IN  <<k>> \o SortedKeys(S \ {k})

\* pivot_table(index=[cik, end, fy, fp], columns="concept", values="value")
\* then sort_values("end"): one row per index key, one column per concept
\* that occurs, NaN where the key has no fact of the concept.  After the
\* de-duplication a key has at most one fact per concept, so the mean that
\* pivot_table takes is that fact's value.
Pivot(long) ==
    Bind(<<SortedKeys({WideKey(long[i]) : i \in DOMAIN long}),
           {long[i].concept : i \in DOMAIN long}>>, LAMBDA kc :
      [k \in DOMAIN kc[1] |->
         [c \in {"cik", "end", "fy", "fp"} \cup kc[2] |->
            IF c \in {"cik", "end", "fy", "fp"} THEN kc[1][k][c]
            ELSE IF \E i \in DOMAIN long :
                      WideKey(long[i]) = kc[1][k] /\ long[i].concept = c
                 THEN Some(long[CHOOSE i \in DOMAIN long :
                             WideKey(long[i]) = kc[1][k] /\ long[i].concept = c].value)
                 ELSE NaN]])

(* ---------------------- inputs of bronze_clean.py --------------------- *)
\* Largest number of observations under the two equity tags of a document.
MaxObs == 2

\* Largest number of documents in a batch.
MaxFiles == 2

\* What an observation can say about its period.  "H1" is a fiscal period
\* outside KEEP_PERIODS.
ObsKeys ==
    { [end |-> e, fy |-> k[1], fp |-> k[2]] :
        e \in {1, 2}, k \in {<<2021, "Q1">>, <<2022, "Q1">>, <<2021, "H1">>} }

ObsSeqs(n) == UNION { [1..m -> ObsKeys] : m \in 0..n }

\* The observation list of tag number t: the k-th value is 100 * t + k, so
\* that a value names the tag and the observation it comes from.
Series(t, keys) ==
    [k \in DOMAIN keys |->
       [end |-> keys[k].end, fy |-> keys[k].fy, fp |-> keys[k].fp,
        val |-> 100 * t + k]]

Tag1 == "StockholdersEquity"

Tag2 == "StockholdersEquityIncludingPortionAttributableToParent"

\* A document with the first equity tag under unit u1 (possibly with an empty
\* list), the second equity tag only when it has observations, and Revenues
\* when rev is set.
UsGaapOf(u1, k1, k2, rev) ==
    [t \in {Tag1} \cup (IF k2 = <<>> THEN {} ELSE {Tag2})
             \cup (IF rev THEN {"Revenues"} ELSE {}) |->
       CASE t = Tag1 -> [u \in {u1} |-> Series(1, k1)]
         [] t = Tag2 -> [u \in {"USD"} |-> Series(2, k2)]
         [] OTHER -> [u \in {"USD"} |->
                        Series(9, <<[end |-> 1, fy |-> 2021, fp |-> "Q1"]>>)]]

Blob(us_gaap) ==
    [cik |-> Some("320193"), facts |-> Some([x \in {"us-gaap"} |-> us_gaap])]

RichDocs ==
    { Blob(UsGaapOf(u1, kk[1], kk[2], rev)) :
        u1 \in {"USD", "EUR"}, rev \in BOOLEAN,
        kk \in { x \in ObsSeqs(MaxObs) \X ObsSeqs(MaxObs) :
                   Len(x[1]) + Len(x[2]) <= MaxObs } }

GoodDoc ==
    Blob(UsGaapOf("USD", <<[end |-> 1, fy |-> 2021, fp |-> "Q1"]>>, <<>>, FALSE))

\* Documents of a batch: one without "cik", one without "facts", one whose
\* facts hold no "us-gaap" entry, and a well-formed one.
BatchDocs ==
    { [cik |-> NaN, facts |-> GoodDoc.facts],
      [cik |-> Some("320193"), facts |-> NaN],
      [cik |-> Some("320193"), facts |-> Some(<<>>)],
      GoodDoc }

\* A batch is one document of any content, or up to MaxFiles documents of
\* which any may be malformed.
BronzeInputs ==
    { <<d>> : d \in RichDocs } \cup UNION { [1..m -> BatchDocs] : m \in 1..MaxFiles }

(* --------------------------- bronze_clean.py -------------------------- *)
InitBronze ==
    /\ bpc = "loop"
    /\ files \in BronzeInputs
    /\ fi = 1
    /\ rows = <<>>
    /\ df_long = <<>>
    /\ bronze = <<>>
    /\ pc = "idle"
    /\ fund = <<>>
    /\ price = <<>>
    /\ spy = <<>>
    /\ gi = 1
    /\ parts = <<>>
    /\ fund_daily = <<>>
    /\ ti = 1
    /\ merged = <<>>
    /\ features = <<>>
    /\ written = FALSE
    /\ info_lag_days = INFO_LAG_DAYS
    /\ max_ff_days = MAX_FF_DAYS
    /\ DownloadIdle

\* process_companies lines 96-101 with extract_company_table lines 54-76: a
\* KeyError of the extraction is not caught and ends the batch; a document
\* without qualifying facts is skipped.
ReadFile ==
    /\ bpc = "loop"
    /\ fi <= Len(files)
    /\ IF Malformed(files[fi])
       THEN /\ bpc' = "crashed"
            /\ UNCHANGED <<fi, rows>>
       ELSE IF LongRows(files[fi]) = <<>>
            THEN /\ fi' = fi + 1
                 /\ UNCHANGED <<bpc, rows>>
            ELSE /\ rows' = LongRows(files[fi])
                 /\ bpc' = "dedup"
                 /\ UNCHANGED fi
    /\ UNCHANGED <<files, df_long, bronze>>
    /\ UNCHANGED <<cvars, fvars, dvars>>

\* extract_company_table lines 78-82
DropDuplicates ==
    /\ bpc = "dedup"
    /\ \E p \in SortedByEnd(rows) : df_long' = Dedup(rows, p)
    /\ bpc' = "pivot"
    /\ UNCHANGED <<files, fi, rows, bronze>>
    /\ UNCHANGED <<cvars, fvars, dvars>>

\* extract_company_table lines 84-91, process_companies lines 102-103
PivotAndWrite ==
    /\ bpc = "pivot"
    /\ bronze' = [j \in DOMAIN bronze \cup {fi} |->
                    IF j = fi THEN Pivot(df_long) ELSE bronze[j]]
    /\ fi' = fi + 1
    /\ rows' = <<>>
    /\ df_long' = <<>>
    /\ bpc' = "loop"
    /\ UNCHANGED files
    /\ UNCHANGED <<cvars, fvars, dvars>>

\* process_companies returns after the last file
Finish ==
    /\ bpc = "loop"
    /\ fi > Len(files)
    /\ bpc' = "done"
    /\ UNCHANGED <<files, fi, rows, df_long, bronze>>
    /\ UNCHANGED <<cvars, fvars, dvars>>

NextBronze ==
    \/ ReadFile
    \/ DropDuplicates
    \/ PivotAndWrite
    \/ Finish

SpecBronze == InitBronze /\ [][NextBronze]_vars

(* ------------------- sec_download.py: fetch_company_facts ------------- *)
MAX_RETRIES == 5

\* Largest number of CIKs of a batch.
MaxCiks == 2

\* status = None after a requests.RequestException
NoStatus == 0

\* What one session.get can come back with: 200, 404, another HTTP status,
\* or a network error.
Statuses == {200, 404, 429, 503, NoStatus}

\* Mutant of Terminal: a 404 is retried like any other failure.
TerminalOnlyOk(status) == status = 200

\* The statuses at which the attempt loop breaks
Terminal(status) == status \in {200, 404}

\* feature_build.py is not running.
FeatureIdle ==
    /\ pc = "idle"
    /\ fund = <<>>
    /\ price = <<>>
    /\ spy = <<>>
    /\ gi = 1
    /\ parts = <<>>
    /\ fund_daily = <<>>
    /\ ti = 1
    /\ merged = <<>>
    /\ features = <<>>
    /\ written = FALSE
    /\ info_lag_days = INFO_LAG_DAYS
    /\ max_ff_days = MAX_FF_DAYS

\* The batches: one to MaxCiks CIKs.
CikInputs ==
    UNION { [1..n -> {"0000320193", "0000789019"}] : n \in 1..MaxCiks }

\* fetch_company_facts(ciks) is entered with a non-empty list (main returns
\* before it when there is nothing to download).
InitDownload ==
    /\ dpc = "fetch"
    /\ ciks \in CikInputs
    /\ ci = 1
    /\ attempt = 0
    /\ requests = [c \in DOMAIN ciks |-> 0]
    /\ last_status = [c \in DOMAIN ciks |-> NaN]
    /\ saved = {}
    /\ FeatureIdle
    /\ BronzeIdle

\* lines 73-93: one pass of the attempt loop for the current CIK
Attempt ==
    /\ dpc = "fetch"
    /\ ci <= Len(ciks)
    /\ attempt < MAX_RETRIES
    /\ \E status \in Statuses :
         /\ requests' = [requests EXCEPT ![ci] = @ + 1]
         /\ last_status' = [last_status EXCEPT ![ci] = Some(status)]
         /\ saved' = IF status = 200 THEN saved \cup {ci} ELSE saved
         /\ IF Terminal(status)
            THEN ci' = ci + 1 /\ attempt' = 0
            ELSE ci' = ci /\ attempt' = attempt + 1
    /\ UNCHANGED <<dpc, ciks>>
    /\ UNCHANGED <<cvars, fvars, bvars>>

\* lines 94-95: the loop ran out of attempts; the else branch, then the next
\* CIK
GiveUp ==
    /\ dpc = "fetch"
    /\ ci <= Len(ciks)
    /\ attempt = MAX_RETRIES
    /\ ci' = ci + 1
    /\ attempt' = 0
    /\ UNCHANGED <<dpc, ciks, requests, last_status, saved>>
    /\ UNCHANGED <<cvars, fvars, bvars>>

\* the list is exhausted: fetch_company_facts returns
Return ==
    /\ dpc = "fetch"
    /\ ci > Len(ciks)
    /\ dpc' = "done"
    /\ UNCHANGED <<ciks, ci, attempt, requests, last_status, saved>>
    /\ UNCHANGED <<cvars, fvars, bvars>>

NextDownload ==
    \/ Attempt
    \/ GiveUp
    \/ Return

\* The script is sequential and every request returns or times out, so a
\* step that can be taken is taken.
SpecDownload == InitDownload /\ [][NextDownload]_vars /\ WF_vars(NextDownload)

(* ============================== claims ================================ *)
Aligned == pc \in {"merge", "label", "save", "done"}

Labelled_ == pc \in {"save", "done"}

Concepts == {"equity", "revenue"}

\* The fundamentals rows of an entity, and the daily rows of an entity.
FundRows(cik) == {i \in DOMAIN fund : fund[i].cik = cik}

\* The cell of column c a fundamentals row puts on its info_date.
CellOf(r, c) ==
    CASE c = "end" -> Some(r.end)
      [] c = "fy" -> Some(r.fy)
      [] c = "fp" -> Some(r.fp)
      [] OTHER -> r[c]

(* C1. No leakage: every daily fundamentals row that carries a period end  *)
(* e lies at a date d >= e + INFO_LAG_DAYS, in every part, in the          *)
(* concatenated daily table and in the feature table; and every concept    *)
(* value of a daily row is the value of a fundamentals row of that entity  *)
(* whose period end e satisfies d >= e + INFO_LAG_DAYS.                    *)
C1_NoLeakage ==
    /\ \A j \in DOMAIN parts : \A k \in DOMAIN parts[j] :
         NotNa(parts[j][k].end) =>
           parts[j][k].date >= Get(parts[j][k].end) + INFO_LAG_DAYS
    /\ \A k \in DOMAIN fund_daily :
         /\ NotNa(fund_daily[k].end) =>
              fund_daily[k].date >= Get(fund_daily[k].end) + INFO_LAG_DAYS
         /\ \A c \in Concepts :
              NotNa(fund_daily[k][c]) =>
                \E i \in FundRows(fund_daily[k].cik) :
                   /\ fund[i][c] = fund_daily[k][c]
                   /\ fund_daily[k].date >= fund[i].end + INFO_LAG_DAYS
    /\ \A k \in DOMAIN features :
         NotNa(features[k].end) =>
           features[k].date >= Get(features[k].end) + INFO_LAG_DAYS

\* A daily row exactly at e + INFO_LAG_DAYS and a forward-filled one after it.
C1_Witness ==
    /\ Aligned
    /\ \E k \in DOMAIN fund_daily :
         /\ NotNa(fund_daily[k].end)
         /\ fund_daily[k].date = Get(fund_daily[k].end) + INFO_LAG_DAYS
    /\ \E k \in DOMAIN fund_daily :
         /\ NotNa(fund_daily[k].end)
         /\ fund_daily[k].date > Get(fund_daily[k].end) + INFO_LAG_DAYS

\* r's values are on a daily row: its period end and its non-absent concepts.
Carries(row, r) ==
    /\ row.end = Some(r.end)
    /\ \A c \in Concepts : NotNa(r[c]) => row[c] = r[c]

\* The end of the hold window of fundamentals row i: the info_date of the
\* entity's next row or info_date + MAX_FF_DAYS, whichever is earlier.
WindowEnd(i) ==
    SetMin({fund[i].info_date + MAX_FF_DAYS}
           \cup {fund[j].info_date : j \in {x \in FundRows(fund[i].cik) :
                                             fund[x].info_date > fund[i].info_date}})

(* C2. Hold window, as claimed: every fundamentals row r, the entity's     *)
(* most recent one included, has a daily row carrying its values on every  *)
(* date d with info_date(r) <= d < min(next info_date, info_date(r) +      *)
(* MAX_FF_DAYS).                                                           *)
C2_HoldWindow ==
    Aligned =>
      \A i \in DOMAIN fund :
        \A d \in fund[i].info_date .. (WindowEnd(i) - 1) :
          \E k \in DOMAIN fund_daily :
            /\ fund_daily[k].cik = fund[i].cik
            /\ fund_daily[k].date = d
            /\ Carries(fund_daily[k], fund[i])

\* The daily rows on which the period end of fundamentals row i is carried.
CarriedOn(i) ==
    {k \in DOMAIN fund_daily :
       /\ fund_daily[k].cik = fund[i].cik
       /\ fund_daily[k].end = Some(fund[i].end)}

(* C3 as claimed: the values of one fundamentals row are carried on at     *)
(* most MAX_FF_DAYS daily rows, the row at its info_date counted.          *)
C3_FillBoundClaimed ==
    Aligned => \A i \in DOMAIN fund : Cardinality(CarriedOn(i)) <= MAX_FF_DAYS

(* C3 as amended: the values of one fundamentals row are carried on at     *)
(* most MAX_FF_DAYS + 1 consecutive daily rows, the row at its info_date   *)
(* and MAX_FF_DAYS filled rows after it; every non-absent cell of a daily  *)
(* row at date d is the cell of a fundamentals row of the entity with      *)
(* info_date in d - MAX_FF_DAYS .. d, so dates beyond have absent          *)
(* fundamentals.                                                           *)
C3_FillBound ==
    Aligned =>
      /\ \A i \in DOMAIN fund : Cardinality(CarriedOn(i)) <= MAX_FF_DAYS + 1
      /\ \A k \in DOMAIN fund_daily :
           \A c \in {"end", "fy", "fp"} \cup Concepts :
             NotNa(fund_daily[k][c]) =>
               \E i \in FundRows(fund_daily[k].cik) :
                  /\ CellOf(fund[i], c) = fund_daily[k][c]
                  /\ fund[i].info_date <= fund_daily[k].date
                  /\ fund_daily[k].date <= fund[i].info_date + MAX_FF_DAYS

\* A row carried on exactly MAX_FF_DAYS + 1 daily rows, followed by a daily
\* row of the entity with no fundamentals at all.
C3_Witness ==
    /\ Aligned
    /\ \E i \in DOMAIN fund :
         /\ Cardinality(CarriedOn(i)) = MAX_FF_DAYS + 1
         /\ \E k \in DOMAIN fund_daily :
              /\ fund_daily[k].cik = fund[i].cik
              /\ fund_daily[k].date = fund[i].info_date + MAX_FF_DAYS + 1
              /\ \A c \in {"end", "fy", "fp"} \cup Concepts : IsNaN(fund_daily[k][c])

\* The entity's latest fundamentals row with info_date <= d.
LatestRow(cik, d) ==
    CHOOSE i \in FundRows(cik) :
      /\ fund[i].info_date <= d
      /\ \A j \in FundRows(cik) :
           fund[j].info_date <= d => fund[j].info_date <= fund[i].info_date

(* C4. Later row overrides, as claimed: on every daily row that carries a  *)
(* period end, every concept column holds the value the concept has in the *)
(* entity's latest fundamentals row with info_date <= d, absent when that  *)
(* row has the concept absent.                                             *)
C4_LaterRowOverrides ==
    Aligned =>
      \A k \in DOMAIN fund_daily :
        NotNa(fund_daily[k].end) =>
          \A c \in Concepts :
            fund_daily[k][c] = fund[LatestRow(fund_daily[k].cik, fund_daily[k].date)][c]

(* C5. The label is never synthesized, as claimed: a feature row without a *)
(* forward observation (future_return or excess_ret absent) has an absent  *)
(* label_up, never 0 or 1.                                                 *)
C5_LabelNeverSynthesized ==
    Labelled_ =>
      \A k \in DOMAIN features :
        (IsNaN(features[k].future_return) \/ IsNaN(features[k].excess_ret))
          => features[k].label_up \notin {0, 1}

\* Position of date d in a price file.
PricePos(p, d) == CHOOSE i \in DOMAIN p : p[i].date = d

(* C6. Label correctness, as claimed: the feature row at position i of its *)
(* entity's price series has future_return = price[i+63]/price[i] - 1 from *)
(* that entity's prices, absent exactly when i + 63 exceeds the length of  *)
(* the series.                                                             *)
C6_LabelCorrect ==
    Labelled_ =>
      \A k \in DOMAIN features :
        LET p == price[features[k].ticker]
            i == PricePos(p, features[k].date)
        IN  features[k].future_return =
              IF i + HORIZON <= Len(p)
              THEN Ret(p[i + HORIZON].adj_close, p[i].adj_close)
              ELSE NaN

(* C10. Positive-equity filter: the feature table never holds a row whose  *)
(* equity is absent, zero or negative.                                     *)
C10_PositiveEquity ==
    \A k \in DOMAIN features :
      NotNa(features[k].equity) /\ Get(features[k].equity) > 0

\* The filter has run on merged rows without fundamentals, with zero equity
\* and with negative equity, and has kept some row.
C10_Witness ==
    /\ pc = "label"
    /\ features # <<>>
    /\ \E j \in DOMAIN merged : \E k \in DOMAIN merged[j] :
         IsNaN(merged[j][k].end) /\ IsNaN(merged[j][k].equity)
    /\ \E j \in DOMAIN merged : \E k \in DOMAIN merged[j] :
         merged[j][k].equity = Some(0)
    /\ \E j \in DOMAIN merged : \E k \in DOMAIN merged[j] :
         NotNa(merged[j][k].equity) /\ Get(merged[j][k].equity) < 0

\* The facts of one de-duplication group among the extracted facts.
GroupOf(key) == {i \in DOMAIN rows : DedupKey(rows[i]) = key}

(* C7. Restatement de-duplication: after drop_duplicates, every group      *)
(* (entity, fiscal year, fiscal period, concept) that had a fact has       *)
(* exactly one surviving fact, that fact is one of the group's facts, and  *)
(* its period end is the latest period end of the group; no other fact     *)
(* survives.                                                               *)
C7_Dedup ==
    bpc = "pivot" =>
      /\ \A i \in DOMAIN rows :
           LET key == DedupKey(rows[i])
               left == {j \in DOMAIN df_long : DedupKey(df_long[j]) = key}
           IN  /\ Cardinality(left) = 1
               /\ \A j \in left :
                    /\ \E x \in GroupOf(key) : rows[x] = df_long[j]
                    /\ \A x \in GroupOf(key) : rows[x].end <= df_long[j].end
      /\ \A j \in DOMAIN df_long : \E i \in DOMAIN rows : rows[i] = df_long[j]

\* A group with an earlier and a later fact has been reduced to one fact.
C7_Witness ==
    /\ bpc = "pivot"
    /\ \E i, j \in DOMAIN rows :
         /\ DedupKey(rows[i]) = DedupKey(rows[j])
         /\ rows[i].end < rows[j].end
         /\ Len(df_long) < Len(rows)

\* The document being extracted, and its observation list of a tag under
\* the target unit (empty when the tag or the unit is missing).
CurGaap == Get(files[fi].facts)["us-gaap"]

UsdList(tag) ==
    IF tag \in DOMAIN CurGaap /\ "USD" \in DOMAIN CurGaap[tag]
    THEN CurGaap[tag]["USD"] ELSE <<>>

EmittedFor(col) == SelectSeq(rows, LAMBDA r : r.concept = col)

(* C8. Synonym precedence: for every canonical concept the emitted facts   *)
(* are, in order, the observations with a kept fiscal period of the first  *)
(* tag of its synonym list whose list under the target unit is non-empty,  *)
(* and of no other tag; a concept none of whose tags is populated emits    *)
(* nothing.                                                                *)
C8_SynonymPrecedence ==
    bpc = "dedup" =>
      \A m \in DOMAIN TAG_MAP :
        LET tags == TAG_MAP[m].tags
            pop  == {j \in DOMAIN tags : UsdList(tags[j]) # <<>>}
            out  == EmittedFor(TAG_MAP[m].col)
        IN  IF pop = {} THEN out = <<>>
            ELSE LET src  == UsdList(tags[SetMin(pop)])
                     kept == SelectSeq(src, LAMBDA rec : rec.fp \in KEEP_PERIODS)
                 IN  /\ Len(out) = Len(kept)
                     /\ \A k \in DOMAIN out :
                          /\ out[k].value = kept[k].val
                          /\ out[k].end = kept[k].end
                          /\ out[k].fy = kept[k].fy
                          /\ out[k].fp = kept[k].fp
                          /\ out[k].cik = Get(files[fi].cik)

\* Both equity synonyms are populated under the target unit with different
\* values, and equity facts have been emitted.
C8_Witness ==
    /\ bpc = "dedup"
    /\ UsdList(Tag1) # <<>>
    /\ UsdList(Tag2) # <<>>
    /\ EmittedFor("equity") # <<>>
    /\ \A k \in DOMAIN UsdList(Tag2) :
         \A r \in DOMAIN rows : rows[r].value # UsdList(Tag2)[k].val

(* C9. Per-entity failure isolation, as claimed: when the batch has ended, *)
(* every well-formed document with qualifying facts has its table written, *)
(* whether it comes before or after a malformed document.                  *)
C9_FailureIsolation ==
    bpc \in {"done", "crashed"} =>
      \A i \in DOMAIN files :
        (~Malformed(files[i]) /\ LongRows(files[i]) # <<>>) => i \in DOMAIN bronze

\* The run is the two-quarter scenario.
InScenario ==
    /\ price = ScenarioPrice
    /\ Len(fund) = Len(ScenarioFund)
    /\ \A k \in DOMAIN fund :
         /\ fund[k].end = ScenarioFund[k].end
         /\ fund[k].equity = ScenarioFund[k].equity

(* C11. End-to-end alignment scenario: with Q1 (period end day 89, equity   *)
(* 100), Q2 (period end day 180, equity 110), a lag of 45 days and a flat   *)
(* daily price from day 0, the run does not fail, and the feature table     *)
(* has equity 100 first on day 134 (2021-05-15), equity 100 still on day    *)
(* 224, equity 110 on day 225 (2021-08-14) and not before; no merged row    *)
(* and no feature row before day 134 has a non-absent equity.               *)
C11_EndToEnd ==
    InScenario =>
      /\ pc # "crashed"
      /\ \A j \in DOMAIN merged : \A k \in DOMAIN merged[j] :
           merged[j][k].date < 134 => IsNaN(merged[j][k].equity)
      /\ pc \in {"label", "save", "done"} =>
           /\ \E k \in DOMAIN features :
                features[k].date = 134 /\ features[k].equity = Some(100)
           /\ \E k \in DOMAIN features :
                features[k].date = 224 /\ features[k].equity = Some(100)
           /\ \E k \in DOMAIN features :
                features[k].date = 225 /\ features[k].equity = Some(110)
           /\ \A k \in DOMAIN features :
                /\ features[k].date < 134 => IsNaN(features[k].equity)
                /\ features[k].equity = Some(100) => features[k].date >= 134
                /\ features[k].equity = Some(110) => features[k].date >= 225

\* The scenario has run to the end and its feature table is written.
C11_Witness ==
    /\ InScenario
    /\ pc = "done"
    /\ written
    /\ \E k \in DOMAIN features : features[k].date = 134
    /\ \E j \in DOMAIN merged : \E k \in DOMAIN merged[j] : merged[j][k].date < 134

(* C12. Output key uniqueness, as claimed: for every wide fundamentals      *)
(* table, one with two rows of an entity sharing a period end included,     *)
(* the daily alignment and the join complete (the run never fails) and the  *)
(* feature table has at most one row per entity and date.                   *)
C12_OutputKeyUnique ==
    /\ pc # "crashed"
    /\ \A j, k \in DOMAIN features :
         (features[j].ticker = features[k].ticker
            /\ features[j].date = features[k].date) => j = k

\* Positions of date d in the benchmark's daily, forward-filled sequence,
\* and the benchmark close on d (absent when d is outside the sequence).
BPos(d) == {i \in DOMAIN spy : spy[i].date = d}

BClose(d) == IF BPos(d) = {} THEN NaN ELSE spy[CHOOSE i \in BPos(d) : TRUE].spy_close

\* The feature row HORIZON positions after row k among the feature rows of
\* the same ticker (empty when fewer rows follow).
RowAhead(k) ==
    {m \in DOMAIN features :
       /\ m > k
       /\ features[m].ticker = features[k].ticker
       /\ Cardinality({x \in (k + 1)..m :
                         features[x].ticker = features[k].ticker}) = HORIZON}

(* C13 as claimed: on every feature row at date d, spy_future_ret is        *)
(* B[k+63]/B[k] - 1, B the benchmark's own daily forward-filled sequence    *)
(* and k the position of d in it (absent when d or k + 63 is outside B),    *)
(* and excess_ret = future_return - spy_future_ret.                         *)
C13_BenchmarkClaimed ==
    Labelled_ =>
      \A k \in DOMAIN features :
        /\ features[k].spy_future_ret =
             IF BPos(features[k].date) = {} THEN NaN
             ELSE LET i == CHOOSE x \in BPos(features[k].date) : TRUE
                  IN  IF i + HORIZON \in DOMAIN spy
                      THEN Ret(spy[i + HORIZON].spy_close, spy[i].spy_close)
                      ELSE NaN
        /\ features[k].excess_ret =
             Excess(features[k].future_return, features[k].spy_future_ret)

(* C13 as amended: on every feature row at date d, spy_close is the         *)
(* benchmark's forward-filled close on d, and spy_future_ret is             *)
(* B(d')/B(d) - 1 where d' is the date of the feature row 63 positions      *)
(* ahead among the same ticker's feature rows, the row the forward price    *)
(* of future_return is taken from; it is absent when no such row exists or  *)
(* the benchmark has no close on d or d'; excess_ret = future_return -      *)
(* spy_future_ret.                                                          *)
C13_BenchmarkReturn ==
    Labelled_ =>
      \A k \in DOMAIN features :
        /\ features[k].spy_close = BClose(features[k].date)
        /\ IF RowAhead(k) = {}
           THEN /\ IsNaN(features[k].spy_future_ret)
                /\ IsNaN(features[k].future_return)
           ELSE LET m == CHOOSE x \in RowAhead(k) : TRUE
                IN  /\ features[k].spy_future_ret =
                         Ret(BClose(features[m].date), BClose(features[k].date))
                    /\ features[k].future_return =
                         Ret(features[m].adj_close, features[k].adj_close)
        /\ features[k].excess_ret =
             Excess(features[k].future_return, features[k].spy_future_ret)

\* A labelled row with a benchmark forward return whose forward row lies
\* more than 63 days ahead, in a table holding rows of both tickers.
C13_Witness ==
    /\ Labelled_
    /\ \E k \in DOMAIN features :
         /\ NotNa(features[k].spy_future_ret)
         /\ NotNa(features[k].excess_ret)
         /\ \E m \in RowAhead(k) : features[m].date > features[k].date + HORIZON
    /\ \E j, k \in DOMAIN features : features[j].ticker # features[k].ticker

\* The configuration the claim calls invalid.
ConfigInvalid == info_lag_days < 0 \/ max_ff_days = 0

(* C14. Configuration validation, as claimed: a run whose INFO_LAG_DAYS is  *)
(* negative or whose MAX_FF_DAYS is zero is rejected at startup: it never   *)
(* aligns a group of fundamentals and never writes the feature table.       *)
C14_ConfigRejected ==
    ConfigInvalid =>
      /\ parts = <<>>
      /\ fund_daily = <<>>
      /\ ~written

\* What holds of every CIK of the batch at every moment of the download.
RetryLoopSafe ==
    /\ \A c \in DOMAIN ciks :
         /\ requests[c] <= MAX_RETRIES
         /\ c \in saved <=> last_status[c] = Some(200)
         /\ (dpc = "fetch" /\ c = ci) =>
              /\ requests[c] = attempt
              /\ attempt > 0 => Get(last_status[c]) \notin {200, 404}
         /\ c < ci =>
              /\ requests[c] >= 1
              /\ \/ last_status[c] \in {Some(200), Some(404)}
                 \/ requests[c] = MAX_RETRIES
         /\ c > ci => requests[c] = 0 /\ IsNaN(last_status[c])
    /\ dpc = "done" => ci = Len(ciks) + 1

(* C15. Download retry loop: every CIK gets at most MAX_RETRIES requests;   *)
(* its file is written exactly when a response had status 200; a CIK is     *)
(* left at the first 200 or 404 and otherwise only after MAX_RETRIES        *)
(* requests, every other status or network error being retried; the CIKs    *)
(* after it are requested whatever its outcome; and the batch terminates    *)
(* with every CIK attempted.                                                *)
C15_RetryLoop == []RetryLoopSafe /\ <>(dpc = "done")

\* The batch has ended with a first CIK given up after MAX_RETRIES requests
\* that ended in a network error, and a later CIK saved after a retry.
C15_Witness ==
    /\ dpc = "done"
    /\ \E c, e \in DOMAIN ciks :
         /\ c < e
         /\ requests[c] = MAX_RETRIES
         /\ last_status[c] = Some(NoStatus)
         /\ c \notin saved
         /\ e \in saved
         /\ requests[e] > 1

=============================================================================
